---- MODULE Spec2Model ----
(***************************************************************************)
(* A model of the computation graph of src/lib.rs: an append-only vector   *)
(* of nodes (Constant, Variable, Sum) addressed by Idx, the forward        *)
(* evaluation pass (evaluate_subgraph) and the derivative pass             *)
(* (derivative).  The enum variant (lines 104-237) and the trait variant   *)
(* (lines 273-422) have the same Graph code; the model follows both.       *)
(*                                                                         *)
(* An Idx(i) is the integer i (0-based); Graph.nodes is a sequence, so     *)
(* the node of Idx(i) is nodes[i + 1].  A HashMap is a function whose      *)
(* DOMAIN is its key set.  f64 values are modelled by integers: every      *)
(* value the model reaches is a sum of small integers, which f64 adds      *)
(* exactly.  A panic (a failed HashMap index) ends the run: pc becomes     *)
(* "panicked" and nothing is enabled afterwards.                           *)
(***************************************************************************)
EXTENDS Integers, Sequences, FiniteSets, TLC

(* ------------------------------ bounds -------------------------------- *)
\* The caller pushes nodes only while the graph has fewer nodes than this.
MaxPush == 3
\* derivative is called only when the doubled graph fits in this many nodes.
MaxNodes == 6
\* The longest child list of a Sum the caller builds.
MaxChildren == 2
\* The largest number of entries of a variable_to_value map the caller passes.
MaxBindings == 2

\* The constants the caller uses in Constant nodes.
ConstVals == {1}
\* The values the caller binds in variable_to_value.
BindVals == {2, 3}

VARIABLES
    nodes,              \* Graph.nodes
    pc,                 \* where the program is: "idle" (between calls), "derivative", "evaluate" (in the
                        \* loop of the call), "evaluated" (the caller holds the returned map), "panicked"
    of,                 \* derivative: the argument of
    wrt,                \* derivative: the argument wrt
    derivatives,        \* derivative: the local HashMap<Idx, Idx>
    old_index,          \* derivative: the loop variable of 0..self.nodes.len()
    range_end,          \* derivative: the end of the range 0..self.nodes.len(), taken once
    held,               \* the Idx the last derivative call returned, while the caller keeps it: <<>> or
                        \* <<[index, paths]>>, paths being the number the claim C2 expects at index
    held_subgraph,      \* the Subgraph the last derivative call returned, until the caller passes it
                        \* (by value) to evaluate_subgraph: <<>> or <<indices>>
    subgraph,           \* evaluate_subgraph: subgraph.indices
    pos,                \* evaluate_subgraph: how many indices the iterator has yielded
    variable_to_value,  \* evaluate_subgraph: the argument variable_to_value
    result              \* evaluate_subgraph: the local map result

vars == <<nodes, pc, of, wrt, derivatives, old_index, range_end, held, held_subgraph,
          subgraph, pos, variable_to_value, result>>

(* ------------------------------ nodes --------------------------------- *)
Constant(c) == [kind |-> "Constant", value |-> c, children |-> <<>>]
Variable == [kind |-> "Variable", value |-> 0, children |-> <<>>]
Sum(cs) == [kind |-> "Sum", value |-> 0, children |-> cs]

\* Idx + Idx
Add(lhs, rhs) == Sum(<<lhs, rhs>>)

\* impl Index<Idx> for Graph
NodeAt(g, index) == g[index + 1]

\* The handles of a graph of n nodes.
Handles(g) == 0 .. (Len(g) - 1)

EmptyMap == [k \in {} |-> 0]

\* Insert that keeps the value of a key the map already holds (entry().or_insert).
InsertKeepingOld(map, key, v) ==
    [k \in (DOMAIN map) \cup {key} |-> IF k \in DOMAIN map THEN map[k] ELSE v]

\* Insert into a map that is emptied first.
InsertIntoFresh(map, key, v) == [k \in {key} |-> v]

\* HashMap::insert: adds the key or overwrites its value.
Insert(map, key, v) ==
    [k \in (DOMAIN map) \cup {key} |-> IF k = key THEN v ELSE map[k]]

RECURSIVE SumSeq(_)
\* Iterator::sum over a sequence of values
SumSeq(s) == IF s = <<>> THEN 0 ELSE Head(s) + SumSeq(Tail(s))

\* impl Index<&Idx> for HashMap: the value of the key, or a panic when the key
\* is absent (ok = FALSE).
Lookup(map, key) ==
    IF key \in DOMAIN map THEN [ok |-> TRUE, value |-> map[key]]
    ELSE [ok |-> FALSE, value |-> 0]

\* GetValue with a Sum that adds each distinct child once.
GetValueDistinctChildren(node, my_index, values) ==
    CASE node.kind = "Constant" -> [ok |-> TRUE, value |-> node.value]
      [] node.kind = "Variable" -> Lookup(values, my_index)
      [] node.kind = "Sum" ->
            IF \E i \in 1 .. Len(node.children) : ~Lookup(values, node.children[i]).ok
            THEN [ok |-> FALSE, value |-> 0]
            ELSE [ok |-> TRUE,
                  value |-> SumSeq([i \in 1 .. Len(node.children) |->
                                IF \E j \in 1 .. (i - 1) : node.children[j] = node.children[i]
                                THEN 0 ELSE values[node.children[i]]])]

\* GetValue with a Variable that reads 0 when it is not bound.
GetValueDefaultZero(node, my_index, values) ==
    CASE node.kind = "Constant" -> [ok |-> TRUE, value |-> node.value]
      [] node.kind = "Variable" ->
            [ok |-> TRUE, value |-> IF my_index \in DOMAIN values THEN values[my_index] ELSE 0]
      [] node.kind = "Sum" ->
            IF \E i \in 1 .. Len(node.children) : ~Lookup(values, node.children[i]).ok
            THEN [ok |-> FALSE, value |-> 0]
            ELSE [ok |-> TRUE,
                  value |-> SumSeq([i \in 1 .. Len(node.children) |-> values[node.children[i]]])]

\* Node::get_value: the value, or a panic (ok = FALSE) when values[..] misses a key
GetValue(node, my_index, values) ==
    CASE node.kind = "Constant" -> [ok |-> TRUE, value |-> node.value]
      [] node.kind = "Variable" -> Lookup(values, my_index)
      [] node.kind = "Sum" ->
            IF \E i \in 1 .. Len(node.children) : ~Lookup(values, node.children[i]).ok
            THEN [ok |-> FALSE, value |-> 0]
            ELSE [ok |-> TRUE,
                  value |-> SumSeq([i \in 1 .. Len(node.children) |->
                                Lookup(values, node.children[i]).value])]

\* NodeDerivative with a Variable whose derivative is 1 whatever wrt holds.
NodeDerivativeIgnoringWrt(node, my_index, w, derivs) ==
    CASE node.kind = "Constant" -> [ok |-> TRUE, node |-> Constant(0)]
      [] node.kind = "Variable" -> [ok |-> TRUE, node |-> Constant(1)]
      [] node.kind = "Sum" ->
            IF \E i \in 1 .. Len(node.children) : ~Lookup(derivs, node.children[i]).ok
            THEN [ok |-> FALSE, node |-> Constant(0)]
            ELSE [ok |-> TRUE,
                  node |-> Sum([i \in 1 .. Len(node.children) |->
                                Lookup(derivs, node.children[i]).value])]

\* Node::derivative: the new node, or a panic (ok = FALSE) when derivatives[child]
\* misses a key
NodeDerivative(node, my_index, w, derivs) ==
    CASE node.kind = "Constant" -> [ok |-> TRUE, node |-> Constant(0)]
      [] node.kind = "Variable" ->
            [ok |-> TRUE, node |-> IF my_index \in w THEN Constant(1) ELSE Constant(0)]
      [] node.kind = "Sum" ->
            IF \E i \in 1 .. Len(node.children) : ~Lookup(derivs, node.children[i]).ok
            THEN [ok |-> FALSE, node |-> Constant(0)]
            ELSE [ok |-> TRUE,
                  node |-> Sum([i \in 1 .. Len(node.children) |->
                                Lookup(derivs, node.children[i]).value])]

(* ------------------------------ Subgraph ------------------------------ *)
RECURSIVE InsertSorted(_, _)
InsertSorted(x, s) ==
    IF s = <<>> THEN <<x>>
    ELSE IF x <= Head(s) THEN <<x>> \o s
    ELSE <<Head(s)>> \o InsertSorted(x, Tail(s))

RECURSIVE SortByKey(_)
\* indices.sort_unstable_by_key(|index| index.0)
SortByKey(s) == IF s = <<>> THEN <<>> ELSE InsertSorted(Head(s), SortByKey(Tail(s)))

\* SubgraphNew without the sort.
SubgraphNewUnsorted(indices_unsorted) == indices_unsorted

\* Subgraph::new: collect the iterator, then sort
SubgraphNew(indices_unsorted) == SortByKey(indices_unsorted)

\* Graph::as_subgraph
AsSubgraph(g) == [i \in 1 .. Len(g) |-> i - 1]

\* The orders in which HashMap::values can yield the values of a map: any
\* enumeration of its keys.
ValueOrders(map) ==
    LET n == Cardinality(DOMAIN map)
    IN  { [i \in 1 .. n |-> map[ks[i]]] :
            ks \in { f \in [1 .. n -> DOMAIN map] :
                       \A i, j \in 1 .. n : i # j => f[i] # f[j] } }

(* ------------------------------ Graph --------------------------------- *)
\* PushNodes that puts the node in front of the others.
PushNodesInFront(g, node) == <<node>> \o g

\* Graph::push / push_box: the vector after self.nodes.push(node)
PushNodes(g, node) == Append(g, node)

\* PushIdx that returns the length, one past the node just pushed.
PushIdxLen(g) == Len(g)

\* Graph::push / push_box: the returned Idx(self.nodes.len() - 1)
PushIdx(g) == Len(g) - 1

RECURSIVE EvaluateFrom(_, _, _, _)
\* Graph::evaluate_subgraph as a function: the loop from position p on, with the
\* map res so far; the returned map, or a panic (ok = FALSE)
EvaluateFrom(g, sub, p, res) ==
    IF p >= Len(sub) THEN [ok |-> TRUE, result |-> res]
    ELSE LET index == sub[p + 1]
             r == GetValue(NodeAt(g, index), index, res)
         IN  IF ~r.ok THEN [ok |-> FALSE, result |-> res]
             ELSE EvaluateFrom(g, sub, p + 1, Insert(res, index, r.value))

(* --------------------------- property helpers ------------------------- *)
RECURSIVE PathCount(_, _, _)
\* The number of child-edge paths from handle h down to Variable handles in w.
PathCount(g, h, w) ==
    LET node == NodeAt(g, h)
    IN  CASE node.kind = "Constant" -> 0
          [] node.kind = "Variable" -> IF h \in w THEN 1 ELSE 0
          [] node.kind = "Sum" ->
                SumSeq([i \in 1 .. Len(node.children) |-> PathCount(g, node.children[i], w)])

Range(s) == { s[i] : i \in 1 .. Len(s) }

(* ------------------------------ inputs -------------------------------- *)
\* The child lists of a Sum the caller can build from the handles it has.
ChildLists(g) == UNION { [1 .. k -> Handles(g)] : k \in 0 .. MaxChildren }

\* The nodes the caller can push: children are handles push has returned.
NewNodes(g) ==
    { Constant(c) : c \in ConstVals } \cup {Variable} \cup { Sum(cs) : cs \in ChildLists(g) }

\* The variable_to_value maps the caller can pass.
Bindings(g) ==
    UNION { [D -> BindVals] : D \in { S \in SUBSET Handles(g) : Cardinality(S) <= MaxBindings } }

(* ------------------------------ actions ------------------------------- *)
Init ==
    /\ nodes = <<>>
    /\ pc = "idle"
    /\ of = 0
    /\ wrt = {}
    /\ derivatives = EmptyMap
    /\ old_index = 0
    /\ range_end = 0
    /\ held = <<>>
    /\ held_subgraph = <<>>
    /\ subgraph = <<>>
    /\ pos = 0
    /\ variable_to_value = EmptyMap
    /\ result = EmptyMap

\* Between calls: the previous call has returned and the caller holds no map.
Ready == pc = "idle"

\* The locals of a call that has returned are gone.
NoDerivativeLocals ==
    /\ of' = 0
    /\ wrt' = {}
    /\ derivatives' = EmptyMap
    /\ old_index' = 0
    /\ range_end' = 0

NoEvaluateLocals ==
    /\ subgraph' = <<>>
    /\ pos' = 0
    /\ variable_to_value' = EmptyMap
    /\ result' = EmptyMap

\* g.push(node)
Push ==
    /\ Ready
    /\ Len(nodes) < MaxPush              \* the bound of the model
    /\ \E node \in NewNodes(nodes) : nodes' = PushNodes(nodes, node)
    /\ pc' = "idle"
    /\ NoDerivativeLocals
    /\ NoEvaluateLocals
    /\ UNCHANGED <<held, held_subgraph>>

\* g.derivative(of, wrt): entry, the range 0..self.nodes.len() is built once
Derivative ==
    /\ Ready
    /\ Len(nodes) > 0                    \* of is an Idx push has returned
    /\ 2 * Len(nodes) <= MaxNodes        \* the bound of the model
    /\ \E o \in Handles(nodes), w \in SUBSET Handles(nodes) :
          /\ of' = o
          /\ wrt' = w
    /\ derivatives' = EmptyMap
    /\ old_index' = 0
    /\ range_end' = Len(nodes)
    /\ pc' = "derivative"
    /\ NoEvaluateLocals
    /\ UNCHANGED <<nodes, held, held_subgraph>>

\* DerivativeLoopDone with the length of the graph read again at every iteration.
DerivativeLoopDoneCurrentLen(i, end, g) == i >= Len(g)

\* DerivativeLoopDone that stops one index early.
DerivativeLoopDoneEarly(i, end, g) == i >= end - 1

\* The loop of derivative has yielded every index of its range 0..end.
DerivativeLoopDone(i, end, g) == i >= end

\* one iteration of the loop of derivative
DerivativeStep ==
    /\ pc = "derivative"
    /\ ~DerivativeLoopDone(old_index, range_end, nodes)
    /\ Len(nodes) < MaxNodes             \* the bound of the model; Derivative left room
    /\ LET d == NodeDerivative(NodeAt(nodes, old_index), old_index, wrt, derivatives)
           pushed == PushNodes(nodes, d.node)
           new_index == PushIdx(pushed)
       IN  IF ~d.ok
           THEN /\ pc' = "panicked"
                /\ UNCHANGED <<nodes, derivatives, old_index>>
           ELSE /\ nodes' = pushed
                /\ derivatives' = Insert(derivatives, old_index, new_index)
                /\ old_index' = old_index + 1
                /\ pc' = "derivative"
    /\ UNCHANGED <<of, wrt, range_end, held, held_subgraph,
                   subgraph, pos, variable_to_value, result>>

\* the return of derivative: (derivatives[&of], Subgraph::new(derivatives.values().cloned()))
DerivativeReturn ==
    /\ pc = "derivative"
    /\ DerivativeLoopDone(old_index, range_end, nodes)
    /\ IF of \notin DOMAIN derivatives
       THEN /\ pc' = "panicked"
            /\ UNCHANGED <<held, held_subgraph>>
       ELSE /\ held' = << [index |-> derivatives[of], paths |-> PathCount(nodes, of, wrt)] >>
            /\ \E order \in ValueOrders(derivatives) :
                  held_subgraph' = << SubgraphNew(order) >>
            /\ pc' = "idle"
    /\ UNCHANGED <<nodes, of, wrt, derivatives, old_index, range_end,
                   subgraph, pos, variable_to_value, result>>

\* the entry of evaluate_subgraph(sub, bindings): let mut result = variable_to_value
EvaluateSubgraphEntry(sub, bindings) ==
    /\ subgraph' = sub
    /\ pos' = 0
    /\ variable_to_value' = bindings
    /\ result' = bindings
    /\ pc' = "evaluate"
    /\ NoDerivativeLocals
    /\ UNCHANGED <<nodes, held>>

\* g.evaluate(variable_to_value) = evaluate_subgraph(as_subgraph(), variable_to_value)
Evaluate ==
    /\ Ready
    /\ \E bindings \in Bindings(nodes) : EvaluateSubgraphEntry(AsSubgraph(nodes), bindings)
    /\ UNCHANGED held_subgraph

\* g.evaluate_subgraph(subgraph, variable_to_value) with the Subgraph derivative
\* returned: the Subgraph is moved into the call (it is not Clone)
EvaluateSubgraph ==
    /\ Ready
    /\ held_subgraph # <<>>
    /\ \E bindings \in Bindings(nodes) : EvaluateSubgraphEntry(held_subgraph[1], bindings)
    /\ held_subgraph' = <<>>

\* one iteration of the loop of evaluate_subgraph
EvaluateStep ==
    /\ pc = "evaluate"
    /\ pos < Len(subgraph)
    /\ LET index == subgraph[pos + 1]
           r == GetValue(NodeAt(nodes, index), index, result)
       IN  IF ~r.ok
           THEN /\ pc' = "panicked"
                /\ UNCHANGED <<pos, result>>
           ELSE /\ result' = Insert(result, index, r.value)
                /\ pos' = pos + 1
                /\ pc' = "evaluate"
    /\ UNCHANGED <<nodes, of, wrt, derivatives, old_index, range_end, held, held_subgraph,
                   subgraph, variable_to_value>>

\* the return of evaluate_subgraph: the map result goes to the caller
EvaluateReturn ==
    /\ pc = "evaluate"
    /\ pos = Len(subgraph)
    /\ pc' = "evaluated"
    /\ UNCHANGED <<nodes, of, wrt, derivatives, old_index, range_end, held, held_subgraph,
                   subgraph, pos, variable_to_value, result>>

\* the map evaluate returned goes out of scope at the caller, and with it the Idx
\* of a derivative whose Subgraph has been evaluated
DropValues ==
    /\ pc = "evaluated"
    /\ pc' = "idle"
    /\ NoEvaluateLocals
    /\ held' = IF held_subgraph = <<>> THEN <<>> ELSE held
    /\ UNCHANGED <<nodes, of, wrt, derivatives, old_index, range_end, held_subgraph>>

Next ==
    \/ Push
    \/ Derivative
    \/ DerivativeStep
    \/ DerivativeReturn
    \/ Evaluate
    \/ EvaluateSubgraph
    \/ EvaluateStep
    \/ EvaluateReturn
    \/ DropValues

Spec == Init /\ [][Next]_vars

\* The loops of one call run to completion: the thread that entered derivative or
\* evaluate_subgraph keeps executing it until it returns or panics.
FairSpec ==
    /\ Spec
    /\ WF_vars(DerivativeStep)
    /\ WF_vars(DerivativeReturn)
    /\ WF_vars(EvaluateStep)
    /\ WF_vars(EvaluateReturn)

(* ------------------------------ claims -------------------------------- *)
\* The graph of the doctests: a = Constant(1), b = Variable, c = a + b.
ExampleGraph == <<Constant(1), Variable, Add(0, 1)>>

StrictlyAscending(s) == \A i \in 1 .. (Len(s) - 1) : s[i] < s[i + 1]

\* What a node's value is, given the returned values of its children.
ValueFromReturned(h) ==
    LET node == NodeAt(nodes, h)
    IN  CASE node.kind = "Constant" -> node.value
          [] node.kind = "Variable" -> variable_to_value[h]
          [] node.kind = "Sum" ->
                SumSeq([i \in 1 .. Len(node.children) |-> result[node.children[i]]])

\* C1: when evaluate over the full subgraph has returned, every handle of the graph
\* has a value: a Constant(c) has c, a Variable has its bound value, a Sum has the
\* sum of the returned values of its children, a child listed twice counted twice.
C1_EvaluateValues ==
    (pc = "evaluated" /\ subgraph = AsSubgraph(nodes)) =>
        \A h \in Handles(nodes) :
            /\ h \in DOMAIN result
            /\ NodeAt(nodes, h).kind = "Variable" => h \in DOMAIN variable_to_value
            /\ \A i \in 1 .. Len(NodeAt(nodes, h).children) :
                   NodeAt(nodes, h).children[i] \in DOMAIN result
            /\ result[h] = ValueFromReturned(h)

\* C1: evaluate({b: 2}) on c = 1 + b has returned, and value(c) = 3.
C1_Witness ==
    /\ pc = "evaluated"
    /\ nodes = ExampleGraph
    /\ subgraph = AsSubgraph(nodes)
    /\ variable_to_value = [k \in {1} |-> 2]
    /\ result[2] = 3

\* The running or last call evaluates the subgraph derivative returned (the caller
\* has the Idx and has passed the Subgraph on), with empty bindings.
EvaluatesHeldFromNothing ==
    /\ held # <<>>
    /\ held_subgraph = <<>>
    /\ held[1].index \in Range(subgraph)
    /\ variable_to_value = EmptyMap

\* C2: evaluating the subgraph returned by derivative(of, wrt) with empty bindings
\* does not panic, and gives at the returned handle the number of child-edge paths
\* from of down to the Variable handles in wrt.
C2_DerivativeCountsPaths ==
    EvaluatesHeldFromNothing =>
        /\ pc # "panicked"
        /\ pc = "evaluated" =>
              /\ held[1].index \in DOMAIN result
              /\ result[held[1].index] = held[1].paths

\* C2: derivative(c, {b}) on c = 1 + b, evaluated with empty bindings, gives 1.
C2_Witness ==
    /\ pc = "evaluated"
    /\ EvaluatesHeldFromNothing
    /\ Len(nodes) = 6
    /\ SubSeq(nodes, 1, 3) = ExampleGraph
    /\ held[1].index = 5
    /\ held[1].paths = 1
    /\ result[5] = 1

\* C3: derivative on a graph of n nodes takes n = nodes.len() at its entry, and when
\* it returns it has appended exactly n nodes, its map sends every old handle i to
\* the new handle n + i, the returned subgraph has exactly the n new handles, and
\* the derivative node of a Sum refers to the one derivative node of each child.
C3_OneDerivativePerNode ==
    [][ /\ (pc # "derivative" /\ pc' = "derivative") => range_end' = Len(nodes)
        /\ (pc = "derivative" /\ pc' = "idle") =>
              /\ Len(nodes) = 2 * range_end
              /\ DOMAIN derivatives = 0 .. (range_end - 1)
              /\ \A i \in DOMAIN derivatives : derivatives[i] = range_end + i
              /\ Len(held_subgraph'[1]) = range_end
              /\ Range(held_subgraph'[1]) = range_end .. (2 * range_end - 1)
              /\ held'[1].index = derivatives[of]
              /\ \A p \in 0 .. (range_end - 1) :
                    NodeAt(nodes, p).kind = "Sum" =>
                        NodeAt(nodes, range_end + p) =
                            Sum([i \in 1 .. Len(NodeAt(nodes, p).children) |->
                                    derivatives[NodeAt(nodes, p).children[i]]])
      ]_vars

\* C3: derivative has returned on a = Variable, b = Sum(a), c = Sum(a, b), where a
\* is the child of two parents, and both derivative nodes refer to handle 3.
C3_Witness ==
    /\ pc = "idle"
    /\ held # <<>>
    /\ range_end = 3
    /\ nodes = <<Variable, Sum(<<0>>), Sum(<<0, 1>>),
                 Constant(1), Sum(<<3>>), Sum(<<3, 4>>)>>
    /\ derivatives = [i \in 0 .. 2 |-> 3 + i]
    /\ held_subgraph = << <<3, 4, 5>> >>

\* C4: every child of every node is a handle strictly smaller than the node's own.
C4_ChildrenPrecede ==
    \A h \in Handles(nodes) :
        \A i \in 1 .. Len(NodeAt(nodes, h).children) :
            /\ NodeAt(nodes, h).children[i] >= 0
            /\ NodeAt(nodes, h).children[i] < h

\* C4: derivative has appended a Sum with two children, and the caller has pushed
\* a Sum over a derivative node after it.
C4_Witness ==
    /\ held # <<>>
    /\ held_subgraph # <<>>
    /\ \E h \in Range(held_subgraph[1]) :
          /\ NodeAt(nodes, h).kind = "Sum"
          /\ Len(NodeAt(nodes, h).children) = 2
    /\ \E h \in Handles(nodes) :
          /\ h > held[1].index
          /\ NodeAt(nodes, h).kind = "Sum"
          /\ \E i \in 1 .. Len(NodeAt(nodes, h).children) :
                NodeAt(nodes, h).children[i] = held[1].index

\* C5: no step removes, reorders or changes a node: the graph before a step is a
\* prefix of the graph after it; and a step of evaluate changes nothing of it.
C5_AppendOnly ==
    [][ /\ Len(nodes') >= Len(nodes)
        /\ SubSeq(nodes', 1, Len(nodes)) = nodes
        /\ (pc = "evaluate" \/ pc' = "evaluate") => nodes' = nodes
      ]_vars

\* C5: the caller has pushed, differentiated, pushed again and evaluated.
C5_Witness ==
    /\ pc = "evaluated"
    /\ held_subgraph = << <<1>> >>
    /\ Len(nodes) = 3

\* C6: during and after an evaluation pass, every entry of the initial bindings and
\* every handle of the subgraph the pass has handled is a key of the map; when the
\* pass has returned, that is every handle of the subgraph.
C6_EntriesAccumulate ==
    /\ pc = "evaluate" =>
          /\ pos <= Len(subgraph)
          /\ DOMAIN variable_to_value \subseteq DOMAIN result
          /\ { subgraph[i] : i \in 1 .. pos } \subseteq DOMAIN result
    /\ pc = "evaluated" =>
          /\ DOMAIN variable_to_value \subseteq DOMAIN result
          /\ Range(subgraph) \subseteq DOMAIN result

\* C6: an evaluation has returned whose bindings had a key outside the subgraph and
\* whose subgraph had a handle outside the bindings.
C6_Witness ==
    /\ pc = "evaluated"
    /\ \E k \in DOMAIN variable_to_value : k \notin Range(subgraph)
    /\ \E h \in Range(subgraph) : h \notin DOMAIN variable_to_value

\* C7: every Subgraph the graph has produced lists its handles in strictly
\* ascending order, hence without duplicates: the one derivative returned, the one
\* as_subgraph gives, and the one an evaluation runs over.
C7_SubgraphAscending ==
    /\ StrictlyAscending(AsSubgraph(nodes))
    /\ StrictlyAscending(subgraph)
    /\ held_subgraph # <<>> => StrictlyAscending(held_subgraph[1])

\* C7: derivative has returned a subgraph of three handles, and evaluate runs over
\* the full subgraph of the six nodes.
C7_Witness ==
    /\ held_subgraph # <<>>
    /\ Len(held_subgraph[1]) = 3
    /\ pc = "evaluate"
    /\ Len(subgraph) = 6

\* Every Variable handle of the subgraph is bound, and every child of a node of the
\* subgraph is in the subgraph or in the initial bindings.
WellBound ==
    \A i \in 1 .. Len(subgraph) :
        LET h == subgraph[i]
            node == NodeAt(nodes, h)
        IN  /\ node.kind = "Variable" => h \in DOMAIN variable_to_value
            /\ \A j \in 1 .. Len(node.children) :
                  \/ node.children[j] \in Range(subgraph)
                  \/ node.children[j] \in DOMAIN variable_to_value

\* A Variable handle of the subgraph has no entry in the initial bindings.
SomeVariableUnbound ==
    \E i \in 1 .. Len(subgraph) :
        /\ NodeAt(nodes, subgraph[i]).kind = "Variable"
        /\ subgraph[i] \notin DOMAIN variable_to_value

\* C8: an evaluation whose subgraph has an unbound Variable handle never returns a
\* map; an evaluation with every Variable bound and every child in the subgraph or
\* the bindings never panics; push and derivative never panic (a panic is always
\* inside an evaluation).
C8_PanicsOnlyUnbound ==
    /\ (pc = "evaluate" /\ pos = Len(subgraph)) => ~SomeVariableUnbound
    /\ pc = "evaluated" => ~SomeVariableUnbound
    /\ pc = "panicked" =>
          /\ subgraph # <<>>
          /\ pos < Len(subgraph)
          /\ ~WellBound

\* C8: an evaluation has panicked at an unbound Variable handle.
C8_Witness ==
    /\ pc = "panicked"
    /\ subgraph # <<>>
    /\ NodeAt(nodes, subgraph[pos + 1]).kind = "Variable"
    /\ subgraph[pos + 1] \notin DOMAIN variable_to_value

\* The handles of the subgraph that are not Variable nodes.
ComputedHandles == { h \in Range(subgraph) : NodeAt(nodes, h).kind # "Variable" }

\* The initial bindings without the entries at the subgraph's non-Variable handles.
Unseeded ==
    [k \in (DOMAIN variable_to_value) \ ComputedHandles |-> variable_to_value[k]]

\* C9: when an evaluation has returned, the value at every Constant or Sum handle of
\* the subgraph is the computed one (the constant, the sum of the returned values of
\* the children), whatever the bindings held there; and the values at the handles
\* of the subgraph are those of the evaluation without the entries seeded at the
\* subgraph's non-Variable handles.
C9_SeedsOverwritten ==
    pc = "evaluated" =>
        /\ \A h \in ComputedHandles : result[h] = ValueFromReturned(h)
        /\ LET other == EvaluateFrom(nodes, subgraph, 0, Unseeded)
           IN  /\ other.ok
               /\ \A h \in Range(subgraph) : other.result[h] = result[h]

\* C9: an evaluation has returned whose bindings seeded a Constant or Sum handle of
\* the subgraph with another value than the computed one, and a later Sum of the
\* subgraph has that handle as a child.
C9_Witness ==
    /\ pc = "evaluated"
    /\ \E h \in ComputedHandles \cap DOMAIN variable_to_value :
          /\ variable_to_value[h] # result[h]
          /\ \E p \in Range(subgraph) :
                /\ NodeAt(nodes, p).kind = "Sum"
                /\ h \in Range(NodeAt(nodes, p).children)

\* A loop of derivative or evaluate_subgraph is running.
Running == pc \in {"derivative", "evaluate"}

\* C10: the loop of derivative runs over 0..n with n fixed at its entry: it has
\* visited exactly the handles below old_index, each once (one appended node and one
\* map entry per visit), never a handle it appended, and each step moves to the next
\* handle; the loop of evaluate_subgraph takes one step per handle of the subgraph;
\* and both loops end: the call returns or panics.
C10_LoopsTerminate ==
    /\ [](pc = "derivative" =>
            /\ old_index <= range_end
            /\ Len(nodes) = range_end + old_index
            /\ DOMAIN derivatives = 0 .. (old_index - 1))
    /\ [](pc = "evaluate" => pos <= Len(subgraph))
    /\ [][ /\ (pc = "derivative" /\ pc' = "derivative") =>
                  /\ old_index < range_end
                  /\ old_index' = old_index + 1
                  /\ range_end' = range_end
           /\ (pc = "evaluate" /\ pc' = "evaluate") =>
                  /\ pos' = pos + 1
                  /\ subgraph' = subgraph
         ]_vars
    /\ (Running ~> ~Running)

\* C10: derivative has run over a graph of three nodes and returned.
C10_Witness ==
    /\ pc = "idle"
    /\ held # <<>>
    /\ range_end = 3
    /\ old_index = 3
    /\ Len(nodes) = 6

====
